---- MODULE Spec2Model ----
(***************************************************************************)
(* Model of bittensor_cli/src/commands/crowd/refund.py: one invocation of  *)
(* refund_crowdloan against a ledger that keeps producing blocks.          *)
(* Every await of a collaborator either returns or raises; the function    *)
(* has no exception handler, so a raise ends the invocation.               *)
(***************************************************************************)
EXTENDS Integers, Sequences, FiniteSets, TLC

\* ---- bounds of the model ------------------------------------------------
MaxBlock == 1
MaxAmount == 1
MaxContributors == 2
MaxLimit == 1

\* ---- values ---------------------------------------------------------------
\* The identifier is only interpolated into messages and passed on to the
\* ledger; the one of the scenarios stands for any.  It differs from every
\* other number a message of the model carries.
CrowdloanIds == {7}

\* Optional values: <<>> is None, <<v>> is the value v.
None == <<>>
Some(v) == <<v>>

Snapshots ==
    { [end |-> e, cap |-> c, raised |-> r, deposit |-> d,
       contributors_count |-> n, finalized |-> f] :
        e \in 0..MaxBlock, c \in 0..MaxAmount, r \in 0..MaxAmount,
        d \in 0..MaxAmount, n \in 0..MaxContributors, f \in BOOLEAN }

ChainSnapshots == { s \in Snapshots : s.deposit <= s.raised }

RefundLimits == (-1)..MaxLimit

UnlockMessages == {"Invalid password", "Keyfile not found"}

\* What the ledger does with a submitted extrinsic: is_success, and, read
\* only when the failure is reported, the name of the structured error (when
\* there is one) and the kind of object that the receipt's error_message
\* attribute is.
Outcomes ==
    { [is_success |-> b, error_attr |-> "unread", error_name |-> None] :
        b \in BOOLEAN }

Errors ==
    { [error_attr |-> a, error_name |-> n] :
        a \in {"coroutine", "dict"},
        n \in {None, Some("InsufficientFunds")} }
    \cup
    { [error_attr |-> "null", error_name |-> None] }

\* before the extrinsic reaches the ledger
NoOutcome == [is_success |-> FALSE, error_attr |-> "unsubmitted", error_name |-> None]

\* ---- messages (f-strings keep their parts) ----------------------------------
\* A message is its format string and the integers interpolated into it.
Text(fmt) == [fmt |-> fmt, args |-> <<>>]
Format(fmt, args) == [fmt |-> fmt, args |-> args]

NotFoundMsg(id) == Format("Crowdloan #{crowdloan_id} not found.", <<id>>)
FinalizedMsg(id) == Format("Crowdloan #{crowdloan_id} is already finalized.", <<id>>)
NotEndedMsg(id) == Format("Crowdloan #{crowdloan_id} is not yet ended.", <<id>>)
CancelledMsg == Text("Refund cancelled by user.")
SubmittedMsg == Text("Refund transaction submitted.")
CompletedMsg == Text("Refund completed successfully.")
UnknownError == Text("Unknown error")

\* A line on the console: what printed it, and the message.
Line(kind, fmt, args) == [kind |-> kind, fmt |-> fmt, args |-> args]

NoResult == [kind |-> "none", ok |-> FALSE, msg |-> Text("")]
Return(ok, msg) == [kind |-> "return", ok |-> ok, msg |-> msg]
Raise(exc) == [kind |-> "raise", ok |-> FALSE, msg |-> Text(exc)]

NotUnlocked == [called |-> FALSE, success |-> FALSE, message |-> ""]

VARIABLES
    crowdloan_id, wait_for_inclusion, wait_for_finalization, prompt,
    ledger_block, ledger_crowdloan, ledger_outcome,
    pc, crowdloan_task, block_task, completed,
    crowdloan, current_block, refund_limit, status, estimated_calls,
    answer, unlock_status, calls, console, result

args == <<crowdloan_id, wait_for_inclusion, wait_for_finalization, prompt>>
ledger == <<ledger_block, ledger_crowdloan, ledger_outcome>>
locals == <<crowdloan, current_block, refund_limit, status, estimated_calls,
            answer, unlock_status>>
tasks == <<crowdloan_task, block_task, completed>>
vars == <<args, ledger, pc, tasks, locals, calls, console, result>>

Range(s) == { s[i] : i \in 1..Len(s) }
Count(s, x) == Cardinality({ i \in 1..Len(s) : s[i] = x })
Called(x) == \E i \in 1..Len(calls) : calls[i] = x

IdleTask == [st |-> "idle", val |-> None]

Init ==
    /\ crowdloan_id \in CrowdloanIds
    /\ wait_for_inclusion \in BOOLEAN
    /\ wait_for_finalization \in BOOLEAN
    /\ prompt \in BOOLEAN
    /\ ledger_block \in 0..MaxBlock
    /\ ledger_crowdloan \in {None} \cup { Some(s) : s \in ChainSnapshots }
    /\ ledger_outcome = NoOutcome
    /\ pc = "start"
    /\ crowdloan_task = IdleTask
    /\ block_task = IdleTask
    /\ completed = <<>>
    /\ crowdloan = None
    /\ current_block = 0
    /\ refund_limit = 0
    /\ status = ""
    /\ estimated_calls = 0
    /\ answer = "not asked"
    /\ unlock_status = NotUnlocked
    /\ calls = <<>>
    /\ console = <<>>
    /\ result = NoResult

\* ---- the ledger ---------------------------------------------------------------
ProduceBlock ==
    /\ ledger_block < MaxBlock
    /\ ledger_block' = ledger_block + 1
    /\ UNCHANGED <<args, ledger_crowdloan, ledger_outcome, pc, tasks, locals,
                   calls, console, result>>

\* ---- lines 48-51: asyncio.gather of the two fetches -----------------------
GatherStart ==
    /\ pc = "start"
    /\ pc' = "gather"
    /\ crowdloan_task' = [st |-> "pending", val |-> None]
    /\ block_task' = [st |-> "pending", val |-> None]
    /\ calls' = calls \o <<"get_single_crowdloan", "get_block_number">>
    /\ UNCHANGED <<args, ledger, completed, locals, console, result>>

get_single_crowdloan ==
    /\ pc = "gather"
    /\ crowdloan_task.st = "pending"
    /\ \/ crowdloan_task' = [st |-> "ok", val |-> Some(ledger_crowdloan)]
       \/ crowdloan_task' = [st |-> "err", val |-> None]
    /\ completed' = Append(completed, "get_single_crowdloan")
    /\ UNCHANGED <<args, ledger, pc, block_task, locals, calls, console, result>>

get_block_number ==
    /\ pc = "gather"
    /\ block_task.st = "pending"
    /\ \/ block_task' = [st |-> "ok", val |-> Some(ledger_block)]
       \/ block_task' = [st |-> "err", val |-> None]
    /\ completed' = Append(completed, "get_block_number")
    /\ UNCHANGED <<args, ledger, pc, crowdloan_task, locals, calls, console, result>>

\* mutant: the join returns as soon as the snapshot is there
GatherReturn_first_completed ==
    /\ pc = "gather"
    /\ crowdloan_task.st = "ok"
    /\ block_task.st # "err"
    /\ crowdloan' = crowdloan_task.val[1]
    /\ current_block' = IF block_task.st = "ok" THEN block_task.val[1] ELSE 0
    /\ pc' = "evaluate"
    /\ UNCHANGED <<args, ledger, tasks, refund_limit, status, estimated_calls,
                   answer, unlock_status, calls, console, result>>

\* gather returns once both awaitables have a result
GatherReturn ==
    /\ pc = "gather"
    /\ crowdloan_task.st = "ok"
    /\ block_task.st = "ok"
    /\ crowdloan' = crowdloan_task.val[1]
    /\ current_block' = block_task.val[1]
    /\ pc' = "evaluate"
    /\ UNCHANGED <<args, ledger, tasks, refund_limit, status, estimated_calls,
                   answer, unlock_status, calls, console, result>>

\* mutant: a failed fetch starts the two fetches again
GatherRaise_retries ==
    /\ pc = "gather"
    /\ \/ crowdloan_task.st = "err"
       \/ block_task.st = "err"
    /\ pc' = "start"
    /\ crowdloan_task' = IdleTask
    /\ block_task' = IdleTask
    /\ completed' = <<>>
    /\ UNCHANGED <<args, ledger, locals, calls, console, result>>

\* gather propagates the first exception raised by either awaitable
GatherRaise ==
    /\ pc = "gather"
    /\ \/ crowdloan_task.st = "err"
       \/ block_task.st = "err"
    /\ pc' = "done"
    /\ result' = Raise("LedgerError")
    /\ UNCHANGED <<args, ledger, tasks, locals, calls, console>>

\* ---- lines 53-68: the eligibility gate ---------------------------------------
\* mutants of the gate
evaluate_skips_finalized(c, block) ==
    IF c = None THEN "NotFound"
    ELSE IF c[1].end > block THEN "NotEnded"
    ELSE "Eligible"

evaluate_window_first(c, block) ==
    IF c = None THEN "NotFound"
    ELSE IF c[1].end > block THEN "NotEnded"
    ELSE IF c[1].finalized THEN "Finalized"
    ELSE "Eligible"

evaluate_window_reversed(c, block) ==
    IF c = None THEN "NotFound"
    ELSE IF c[1].finalized THEN "Finalized"
    ELSE IF c[1].end < block THEN "NotEnded"
    ELSE "Eligible"

evaluate_absent_eligible(c, block) ==
    IF c = None THEN "Eligible"
    ELSE IF c[1].finalized THEN "Finalized"
    ELSE IF c[1].end > block THEN "NotEnded"
    ELSE "Eligible"

evaluate_skips_window(c, block) ==
    IF c = None THEN "NotFound"
    ELSE IF c[1].finalized THEN "Finalized"
    ELSE "Eligible"

evaluate(c, block) ==
    IF c = None THEN "NotFound"
    ELSE IF c[1].finalized THEN "Finalized"
    ELSE IF c[1].end > block THEN "NotEnded"
    ELSE "Eligible"

Gate ==
    /\ pc = "evaluate"
    /\ LET v == evaluate(crowdloan, current_block) IN
        CASE v = "NotFound" ->
                /\ console' = Append(console,
                        Line("print_error", "Crowdloan #{crowdloan_id} not found.",
                             <<crowdloan_id>>))
                /\ result' = Return(FALSE, NotFoundMsg(crowdloan_id))
                /\ pc' = "done"
          [] v = "Finalized" ->
                /\ console' = Append(console,
                        Line("print_error",
                             "Crowdloan #{crowdloan_id} is already finalized. Finalized crowdloans cannot be refunded.",
                             <<crowdloan_id>>))
                /\ result' = Return(FALSE, FinalizedMsg(crowdloan_id))
                /\ pc' = "done"
          [] v = "NotEnded" ->
                /\ console' = Append(console,
                        Line("print_error",
                             "Crowdloan #{crowdloan_id} is not yet ended. End block: {end} ({end - current_block} remaining)",
                             <<crowdloan_id, crowdloan[1].end,
                               crowdloan[1].end - current_block>>))
                /\ result' = Return(FALSE, NotEndedMsg(crowdloan_id))
                /\ pc' = "done"
          [] OTHER ->
                /\ pc' = "show_crowdloan_details"
                /\ UNCHANGED <<console, result>>
    /\ UNCHANGED <<args, ledger, tasks, locals, calls>>

\* ---- lines 70-77: show_crowdloan_details ----------------------------------
show_crowdloan_details ==
    /\ pc = "show_crowdloan_details"
    /\ calls' = Append(calls, "show_crowdloan_details")
    /\ \/ /\ pc' = "get_constant"
          /\ console' = Append(console,
                    Line("show_crowdloan_details", "", <<crowdloan_id, current_block>>))
          /\ UNCHANGED result
       \/ /\ pc' = "done"
          /\ result' = Raise("LedgerError")
          /\ UNCHANGED console
    /\ UNCHANGED <<args, ledger, tasks, locals>>

\* ---- line 79: get_constant(subtensor, "RefundContributorsLimit") ----------
get_constant ==
    /\ pc = "get_constant"
    /\ calls' = Append(calls, "get_constant")
    /\ \/ /\ \E limit \in RefundLimits : refund_limit' = limit
          /\ pc' = "report"
          /\ UNCHANGED result
       \/ /\ pc' = "done"
          /\ result' = Raise("LedgerError")
          /\ UNCHANGED refund_limit
    /\ UNCHANGED <<args, ledger, tasks, crowdloan, current_block, status,
                   estimated_calls, answer, unlock_status, console>>

\* ---- lines 100-106: the status shown in the table --------------------------
Status_cap_reached_fails(c, block) ==
    IF block >= c.end
    THEN IF c.raised <= c.cap THEN "Failed" ELSE "Ended but not finalized"
    ELSE "Active"

Status(c, block) ==
    IF block >= c.end
    THEN IF c.raised < c.cap THEN "Failed" ELSE "Ended but not finalized"
    ELSE "Active"

\* ---- lines 110-115: the batching estimate ----------------------------------
Max(a, b) == IF a >= b THEN a ELSE b

estimate_calls_two_extra(contributors_count, limit) ==
    LET refundable_contributors == Max(0, contributors_count) IN
    IF limit > 0
    THEN (refundable_contributors \div limit) + 2
    ELSE 0

estimate_calls(contributors_count, limit) ==
    LET refundable_contributors == Max(0, contributors_count) IN
    IF limit > 0
    THEN (refundable_contributors + limit) \div limit
    ELSE 0

\* ---- lines 81-130: the refund information table and the note ---------------
Report ==
    /\ pc = "report"
    /\ LET c == crowdloan[1]
           s == Status(c, current_block)
           e == estimate_calls(c.contributors_count, refund_limit)
           rows == << Line("row", "Crowdloan ID", <<crowdloan_id>>),
                      Line("row", "Total Contributors", <<c.contributors_count>>),
                      Line("row", "Refund Limit (per call)", <<refund_limit>>),
                      Line("row", "Amount to Refund", <<c.raised - c.deposit>>),
                      Line("row Status", s, <<>>) >>
           extra == IF e > 1
                    THEN << Line("row", "Estimated Calls Needed", <<e>>),
                            Line("print", "Note", <<refund_limit, e, refund_limit>>) >>
                    ELSE << >>
       IN /\ status' = s
          /\ estimated_calls' = e
          /\ console' = console \o rows \o extra
    /\ pc' = "confirm"
    /\ UNCHANGED <<args, ledger, tasks, crowdloan, current_block, refund_limit,
                   answer, unlock_status, calls, result>>

\* ---- lines 132-137: the confirmation ---------------------------------------
\* mutant: the question is asked whatever prompt is
Confirm_always_asks ==
    /\ pc = "confirm"
    /\ calls' = Append(calls, "Confirm.ask")
    /\ \E yes \in BOOLEAN :
        IF yes
        THEN /\ answer' = "yes"
             /\ pc' = "unlock_key"
             /\ UNCHANGED <<console, result>>
        ELSE /\ answer' = "no"
             /\ console' = Append(console, Line("print", "Refund cancelled.", <<>>))
             /\ result' = Return(FALSE, CancelledMsg)
             /\ pc' = "done"
    /\ UNCHANGED <<args, ledger, tasks, crowdloan, current_block, refund_limit,
                   status, estimated_calls, unlock_status>>

\* mutant: the answer is asked for and then ignored
Confirm_ignores_answer ==
    /\ pc = "confirm"
    /\ IF prompt
       THEN /\ calls' = Append(calls, "Confirm.ask")
            /\ \E yes \in BOOLEAN : answer' = IF yes THEN "yes" ELSE "no"
       ELSE UNCHANGED <<answer, calls>>
    /\ pc' = "unlock_key"
    /\ UNCHANGED <<args, ledger, tasks, crowdloan, current_block, refund_limit,
                   status, estimated_calls, unlock_status, console, result>>

Confirm ==
    /\ pc = "confirm"
    /\ IF prompt
       THEN /\ calls' = Append(calls, "Confirm.ask")
            /\ \E yes \in BOOLEAN :
                IF yes
                THEN /\ answer' = "yes"
                     /\ pc' = "unlock_key"
                     /\ UNCHANGED <<console, result>>
                ELSE /\ answer' = "no"
                     /\ console' = Append(console, Line("print", "Refund cancelled.", <<>>))
                     /\ result' = Return(FALSE, CancelledMsg)
                     /\ pc' = "done"
       ELSE /\ pc' = "unlock_key"
            /\ UNCHANGED <<answer, calls, console, result>>
    /\ UNCHANGED <<args, ledger, tasks, crowdloan, current_block, refund_limit,
                   status, estimated_calls, unlock_status>>

\* ---- lines 139-142: unlock_key(wallet) -------------------------------------
\* mutant: after a failed unlock the user is asked again
unlock_key_asks_again ==
    /\ pc = "unlock_key"
    /\ calls' = Append(calls, "unlock_key")
    /\ \/ /\ unlock_status' = [called |-> TRUE, success |-> TRUE, message |-> ""]
          /\ pc' = "compose_call"
          /\ UNCHANGED console
       \/ \E m \in UnlockMessages :
          /\ unlock_status' = [called |-> TRUE, success |-> FALSE, message |-> m]
          /\ console' = Append(console, Line("print_error", m, <<>>))
          /\ pc' = "confirm"
    /\ UNCHANGED <<args, ledger, tasks, crowdloan, current_block, refund_limit,
                   status, estimated_calls, answer, result>>

\* mutant: the failed unlock is reported but the function goes on
unlock_key_goes_on ==
    /\ pc = "unlock_key"
    /\ calls' = Append(calls, "unlock_key")
    /\ \/ /\ unlock_status' = [called |-> TRUE, success |-> TRUE, message |-> ""]
          /\ UNCHANGED console
       \/ \E m \in UnlockMessages :
          /\ unlock_status' = [called |-> TRUE, success |-> FALSE, message |-> m]
          /\ console' = Append(console, Line("print_error", m, <<>>))
    /\ pc' = "compose_call"
    /\ UNCHANGED <<args, ledger, tasks, crowdloan, current_block, refund_limit,
                   status, estimated_calls, answer, result>>

unlock_key ==
    /\ pc = "unlock_key"
    /\ calls' = Append(calls, "unlock_key")
    /\ \/ /\ unlock_status' = [called |-> TRUE, success |-> TRUE, message |-> ""]
          /\ pc' = "compose_call"
          /\ UNCHANGED <<console, result>>
       \/ \E m \in UnlockMessages :
          /\ unlock_status' = [called |-> TRUE, success |-> FALSE, message |-> m]
          /\ console' = Append(console, Line("print_error", m, <<>>))
          /\ result' = Return(FALSE, Text(m))
          /\ pc' = "done"
    /\ UNCHANGED <<args, ledger, tasks, crowdloan, current_block, refund_limit,
                   status, estimated_calls, answer>>

\* ---- lines 147-161: compose, sign, submit ----------------------------------
compose_call ==
    /\ pc = "compose_call"
    /\ calls' = Append(calls, "compose_call")
    /\ \/ /\ pc' = "create_signed_extrinsic"
          /\ UNCHANGED result
       \/ /\ pc' = "done"
          /\ result' = Raise("LedgerError")
    /\ UNCHANGED <<args, ledger, tasks, locals, console>>

create_signed_extrinsic ==
    /\ pc = "create_signed_extrinsic"
    /\ calls' = Append(calls, "create_signed_extrinsic")
    /\ \/ /\ pc' = "submit_extrinsic"
          /\ UNCHANGED result
       \/ /\ pc' = "done"
          /\ result' = Raise("LedgerError")
    /\ UNCHANGED <<args, ledger, tasks, locals, console>>

\* The ledger decides what becomes of the extrinsic when it receives it; with
\* a wait requested, submit_extrinsic returns only after that.
submit_extrinsic ==
    /\ pc = "submit_extrinsic"
    /\ calls' = Append(calls, "submit_extrinsic")
    /\ \/ /\ \E o \in Outcomes : ledger_outcome' = o
          /\ pc' = "submitted"
          /\ UNCHANGED result
       \/ /\ pc' = "done"
          /\ result' = Raise("LedgerError")
          /\ UNCHANGED ledger_outcome
    /\ UNCHANGED <<args, ledger_block, ledger_crowdloan, tasks, locals, console>>

\* ---- lines 163-165: nothing to wait for ------------------------------------
NoWait_inclusion_not_negated(inclusion, finalization) == ~finalization /\ inclusion

NoWait(inclusion, finalization) == ~finalization /\ ~inclusion

CheckWait ==
    /\ pc = "submitted"
    /\ IF NoWait(wait_for_inclusion, wait_for_finalization)
       THEN /\ console' = Append(console, Line("print", "Refund transaction submitted.", <<>>))
            /\ result' = Return(TRUE, SubmittedMsg)
            /\ pc' = "done"
       ELSE /\ pc' = "process_events"
            /\ UNCHANGED <<console, result>>
    /\ UNCHANGED <<args, ledger, tasks, locals, calls>>

\* ---- line 167: await response.process_events() -----------------------------
process_events ==
    /\ pc = "process_events"
    /\ calls' = Append(calls, "process_events")
    /\ \/ /\ pc' = "is_success"
          /\ UNCHANGED result
       \/ /\ pc' = "done"
          /\ result' = Raise("LedgerError")
    /\ UNCHANGED <<args, ledger, tasks, locals, console>>

\* ---- line 169: await response.is_success -----------------------------------
\* mutant: the test of line 169 without its "not"
is_success_inverted ==
    /\ pc = "is_success"
    /\ calls' = Append(calls, "is_success")
    /\ \/ /\ pc' = IF ledger_outcome.is_success THEN "failed" ELSE "succeeded"
          /\ UNCHANGED result
       \/ /\ pc' = "done"
          /\ result' = Raise("LedgerError")
    /\ UNCHANGED <<args, ledger, tasks, locals, console>>

is_success ==
    /\ pc = "is_success"
    /\ calls' = Append(calls, "is_success")
    /\ \/ /\ pc' = IF ledger_outcome.is_success THEN "succeeded" ELSE "failed"
          /\ UNCHANGED result
       \/ /\ pc' = "done"
          /\ result' = Raise("LedgerError")
    /\ UNCHANGED <<args, ledger, tasks, locals, console>>

\* ---- line 174: await response.error_message.get("name", "Unknown error") ---
\* The attribute access and the call of get come before the await.  On the
\* receipt of an awaited is_success, error_message is a coroutine, which has
\* no get; None has none either; a dict's get gives a str, which cannot be
\* awaited.
error_name(o) ==
    IF o.error_attr = "dict"
    THEN Raise("TypeError")
    ELSE Raise("AttributeError")

\* ---- lines 170-174: the ledger rejected the extrinsic ----------------------
ReportFailure ==
    /\ pc = "failed"
    /\ console' = Append(console, Line("print_error", "Failed to refund contributors.", <<>>))
    /\ calls' = Append(calls, "error_message")
    /\ \E e \in Errors :
        /\ ledger_outcome' = [ledger_outcome EXCEPT !.error_attr = e.error_attr,
                                                    !.error_name = e.error_name]
        /\ result' = error_name(ledger_outcome')
    /\ pc' = "done"
    /\ UNCHANGED <<args, ledger_block, ledger_crowdloan, tasks, locals>>

\* ---- lines 175-178: the success message ------------------------------------
SucceededText(id) ==
    Line("print",
         "Refund transaction succeeded! Contributors have been refunded for Crowdloan #{crowdloan_id}.",
         <<id>>)

PrintSucceeded ==
    /\ pc = "succeeded"
    /\ console' = Append(console, SucceededText(crowdloan_id))
    /\ pc' = "print_extrinsic_id"
    /\ UNCHANGED <<args, ledger, tasks, locals, calls, result>>

\* ---- lines 179-180: print the extrinsic id and return ----------------------
print_extrinsic_id ==
    /\ pc = "print_extrinsic_id"
    /\ calls' = Append(calls, "print_extrinsic_id")
    /\ \/ /\ pc' = "return"
          /\ UNCHANGED result
       \/ /\ pc' = "done"
          /\ result' = Raise("LedgerError")
    /\ UNCHANGED <<args, ledger, tasks, locals, console>>

ReturnCompleted ==
    /\ pc = "return"
    /\ result' = Return(TRUE, CompletedMsg)
    /\ pc' = "done"
    /\ UNCHANGED <<args, ledger, tasks, locals, calls, console>>

Next ==
    \/ ProduceBlock
    \/ GatherStart
    \/ get_single_crowdloan
    \/ get_block_number
    \/ GatherReturn
    \/ GatherRaise
    \/ Gate
    \/ show_crowdloan_details
    \/ get_constant
    \/ Report
    \/ Confirm
    \/ unlock_key
    \/ compose_call
    \/ create_signed_extrinsic
    \/ submit_extrinsic
    \/ CheckWait
    \/ process_events
    \/ is_success
    \/ ReportFailure
    \/ PrintSucceeded
    \/ print_extrinsic_id
    \/ ReturnCompleted

Spec == Init /\ [][Next]_vars

\* One step of the invocation (the ledger's block production left out).
\* Every collaborator call eventually returns or raises, and the event loop
\* then resumes the coroutine: the invocation's steps are weakly fair.
Step ==
    \/ GatherStart
    \/ get_single_crowdloan
    \/ get_block_number
    \/ GatherReturn
    \/ GatherRaise
    \/ Gate
    \/ show_crowdloan_details
    \/ get_constant
    \/ Report
    \/ Confirm
    \/ unlock_key
    \/ compose_call
    \/ create_signed_extrinsic
    \/ submit_extrinsic
    \/ CheckWait
    \/ process_events
    \/ is_success
    \/ ReportFailure
    \/ PrintSucceeded
    \/ print_extrinsic_id
    \/ ReturnCompleted

FairSpec == Spec /\ WF_vars(Step)

\* ---- properties ----------------------------------------------------------------
\* gather has returned: crowdloan and current_block are bound
Gathered ==
    /\ pc \notin {"start", "gather"}
    /\ crowdloan_task.st = "ok"
    /\ block_task.st = "ok"

Printed(l) == \E i \in 1..Len(console) : console[i] = l

\* none of the calls in the set was made
NoneCalled(S) == \A i \in 1..Len(calls) : calls[i] \notin S

\* x occurs at most once in the sequence s
AtMostOnce(s, x) ==
    \A i \in 1..Len(s) :
        s[i] = x => \A j \in (i + 1)..Len(s) : s[j] # x

\* C1: the refund call is composed, signed and submitted only if, earlier in
\* the invocation, the snapshot was present and not finalized, its end was
\* <= current_block, the user confirmed (or prompt was false) and the wallet
\* unlock succeeded.
C1_SubmitOnlyWhenGated ==
    (Called("compose_call") \/ Called("create_signed_extrinsic")
        \/ Called("submit_extrinsic"))
    => /\ Gathered
       /\ crowdloan # None
       /\ ~crowdloan[1].finalized
       /\ crowdloan[1].end <= current_block
       /\ (answer = "yes" \/ ~prompt)
       /\ Called("unlock_key")
       /\ unlock_status.called /\ unlock_status.success

C1_Witness ==
    /\ pc = "done"
    /\ Called("submit_extrinsic")
    /\ result.kind = "return"
    /\ prompt /\ answer = "yes"
    /\ crowdloan # None /\ crowdloan[1].end = current_block

\* C2: a present snapshot with finalized = true, whatever current_block is
\* (below, equal to or above end), makes the invocation end at the gate with
\* (false, "Crowdloan #<id> is already finalized.").
C2_FinalizedRefused ==
    (Gathered /\ crowdloan # None /\ crowdloan[1].finalized)
    => /\ pc \in {"evaluate", "done"}
       /\ pc = "done" => /\ result = Return(FALSE, FinalizedMsg(crowdloan_id))
                         /\ calls = <<"get_single_crowdloan", "get_block_number">>

C2_Witness ==
    /\ pc = "done"
    /\ Gathered
    /\ crowdloan # None /\ crowdloan[1].finalized
    /\ current_block < crowdloan[1].end
    /\ result = Return(FALSE, FinalizedMsg(crowdloan_id))

\* the line that print_error shows for an open window, with the remaining blocks
NotEndedLine(id, end, remaining) ==
    Line("print_error",
         "Crowdloan #{crowdloan_id} is not yet ended. End block: {end} ({end - current_block} remaining)",
         <<id, end, remaining>>)

\* C3 as stated: every present snapshot with current_block < end ends as
\* (false, "Crowdloan #<id> is not yet ended.") with remaining = end - current_block.
C3_Original ==
    (pc = "done" /\ Gathered /\ crowdloan # None
        /\ current_block < crowdloan[1].end)
    => /\ result = Return(FALSE, NotEndedMsg(crowdloan_id))
       /\ Printed(NotEndedLine(crowdloan_id, crowdloan[1].end,
                               crowdloan[1].end - current_block))

\* C3 amended: every present snapshot that is not finalized, with
\* current_block < end, ends the invocation at the gate with
\* (false, "Crowdloan #<id> is not yet ended.") and a reported remaining-blocks
\* count of end - current_block.
C3_OpenWindowRefused ==
    (Gathered /\ crowdloan # None /\ ~crowdloan[1].finalized
        /\ current_block < crowdloan[1].end)
    => /\ pc \in {"evaluate", "done"}
       /\ pc = "done" =>
            /\ result = Return(FALSE, NotEndedMsg(crowdloan_id))
            /\ Printed(NotEndedLine(crowdloan_id, crowdloan[1].end,
                                    crowdloan[1].end - current_block))
            /\ calls = <<"get_single_crowdloan", "get_block_number">>

C3_Witness ==
    /\ pc = "done"
    /\ Gathered
    /\ crowdloan # None /\ ~crowdloan[1].finalized
    /\ crowdloan[1].end - current_block = MaxBlock
    /\ result = Return(FALSE, NotEndedMsg(crowdloan_id))

\* C4: when the identifier does not resolve to a snapshot the invocation ends
\* with (false, "Crowdloan #<id> not found."), whatever the current block, and
\* no refund-limit read, prompt, unlock or submission takes place.
LaterSteps ==
    {"show_crowdloan_details", "get_constant", "Confirm.ask", "unlock_key",
     "compose_call", "create_signed_extrinsic", "submit_extrinsic"}

C4_NotFound ==
    (Gathered /\ crowdloan = None)
    => /\ pc \in {"evaluate", "done"}
       /\ pc = "done" => result = Return(FALSE, NotFoundMsg(crowdloan_id))
       /\ NoneCalled(LaterSteps)
       /\ answer = "not asked"
       /\ ~unlock_status.called

C4_Witness ==
    /\ pc = "done"
    /\ Gathered
    /\ crowdloan = None
    /\ current_block = MaxBlock
    /\ result = Return(FALSE, NotFoundMsg(crowdloan_id))

\* C5: a present snapshot with finalized = false and current_block >= end is
\* eligible (the gate does not refuse it), the status shown is "Failed" iff
\* raised < cap and "Ended but not finalized" otherwise, and "Active" is
\* never the status of an invocation that got past the gate.
GateRefusals(id) == {NotFoundMsg(id), FinalizedMsg(id), NotEndedMsg(id)}

ShownStatus == { console[i].fmt : i \in { j \in 1..Len(console) :
                                            console[j].kind = "row Status" } }

C5_StatusOfEligible ==
    /\ status # "Active"
    /\ "Active" \notin ShownStatus
    /\ (Gathered /\ crowdloan # None /\ ~crowdloan[1].finalized
            /\ current_block >= crowdloan[1].end)
       => /\ pc = "done" /\ result.kind = "return"
                => result.msg \notin GateRefusals(crowdloan_id)
          /\ Called("get_constant") /\ pc \notin {"report", "done"}
                => /\ ShownStatus # {}
                   /\ status \in ShownStatus
          /\ \A s \in ShownStatus \cup ({status} \ {""}) :
                /\ (s = "Failed") <=> (crowdloan[1].raised < crowdloan[1].cap)
                /\ (s = "Ended but not finalized")
                        <=> (crowdloan[1].raised >= crowdloan[1].cap)

C5_Witness ==
    /\ Gathered
    /\ crowdloan # None /\ ~crowdloan[1].finalized
    /\ current_block >= crowdloan[1].end
    /\ crowdloan[1].raised = crowdloan[1].cap
    /\ ShownStatus = {"Ended but not finalized"}

\* the table has been printed (lines 81-123)
Reported == \E i \in 1..Len(console) : console[i].kind = "row Status"

\* C6: the batching estimate is 0 when refund_limit <= 0 and otherwise the
\* smallest integer k with k * refund_limit >= contributors_count (so 0 for no
\* contributors, 1 for contributors_count = refund_limit, 2 for refund_limit + 1).
C6_SmallestCover ==
    Reported =>
        LET n == crowdloan[1].contributors_count
            k == estimated_calls
        IN  IF refund_limit <= 0
            THEN k = 0
            ELSE /\ k >= 0
                 /\ k * refund_limit >= n
                 /\ \A j \in 0..(k - 1) : j * refund_limit < n

\* C7: an eligible crowdloan, prompt = true and the answer "no" end the
\* invocation with (false, "Refund cancelled by user.") and neither the unlock
\* nor compose/sign/submit takes place.
C7_DeclineCancels ==
    answer = "no"
    => /\ prompt
       /\ pc = "done"
       /\ result = Return(FALSE, Text("Refund cancelled by user."))
       /\ calls[Len(calls)] = "Confirm.ask"
       /\ NoneCalled({"unlock_key", "compose_call",
                      "create_signed_extrinsic", "submit_extrinsic"})
       /\ ~unlock_status.called
       /\ ledger_outcome = NoOutcome

C7_Witness ==
    /\ pc = "done"
    /\ answer = "no"
    /\ Gathered /\ crowdloan # None /\ ~crowdloan[1].finalized
    /\ crowdloan[1].end <= current_block
    /\ estimated_calls = 3
    /\ result = Return(FALSE, Text("Refund cancelled by user."))

\* submit_extrinsic has returned: the extrinsic is with the ledger
Submitted == ledger_outcome # NoOutcome

AfterSubmit == {"process_events", "is_success", "error_message", "print_extrinsic_id"}

\* C8: with wait_for_inclusion = false and wait_for_finalization = false the
\* invocation ends with (true, "Refund transaction submitted.") right after
\* the submission, with no wait and no further ledger interaction, whatever the
\* ledger does with the extrinsic.
C8_FireAndForget ==
    (Submitted /\ ~wait_for_inclusion /\ ~wait_for_finalization)
    => /\ pc \in {"submitted", "done"}
       /\ pc = "done" => result = Return(TRUE, Text("Refund transaction submitted."))
       /\ calls[Len(calls)] = "submit_extrinsic"
       /\ NoneCalled(AfterSubmit)

C8_Witness ==
    /\ pc = "done"
    /\ Submitted
    /\ ~wait_for_inclusion /\ ~wait_for_finalization
    /\ ~ledger_outcome.is_success
    /\ result = Return(TRUE, Text("Refund transaction submitted."))

\* C9: with an acknowledgment requested and the extrinsic reported as failed,
\* the invocation ends with (false, m), m being the name of the ledger's
\* structured error when there is one and "Unknown error" otherwise.
C9_RejectedNamed ==
    (pc = "done" /\ Called("error_message"))
    => result = Return(FALSE,
                       IF ledger_outcome.error_name # None
                       THEN Text(ledger_outcome.error_name[1])
                       ELSE Text("Unknown error"))

\* a message identifies the crowdloan when the id is interpolated into it
Identifies(msg, id) == id \in Range(msg.args)

RefundedTexts ==
    {"Refund transaction succeeded! Contributors have been refunded for Crowdloan #{crowdloan_id}."}

\* C10 as stated: after a requested acknowledgment that reports success, the
\* returned message identifies the crowdloan.
C10_Original ==
    (pc = "done" /\ Called("print_extrinsic_id") /\ result.kind = "return")
    => /\ result.ok
       /\ Identifies(result.msg, crowdloan_id)

\* C10 amended: after a requested acknowledgment that reports success, the
\* message printed on the console identifies the crowdloan and states that
\* contributors were refunded, and the result returned once the extrinsic id
\* has been printed is (true, "Refund completed successfully.").
C10_SucceededReported ==
    /\ (Called("is_success") /\ ledger_outcome.is_success)
       => /\ pc \in {"succeeded", "print_extrinsic_id", "return", "done"}
          /\ ~Called("error_message")
    /\ (pc \in {"print_extrinsic_id", "return"} \/ Called("print_extrinsic_id"))
       => /\ wait_for_inclusion \/ wait_for_finalization
          /\ ledger_outcome.is_success
          /\ \E i \in 1..Len(console) :
                /\ console[i].kind = "print"
                /\ console[i].fmt \in RefundedTexts
                /\ console[i].args = <<crowdloan_id>>
    /\ (pc = "done" /\ Called("print_extrinsic_id") /\ result.kind = "return")
       => result = Return(TRUE, Text("Refund completed successfully."))

C10_Witness ==
    /\ pc = "done"
    /\ wait_for_finalization
    /\ ledger_outcome.is_success
    /\ Printed(Line("print", "Refund transaction succeeded! Contributors have been refunded for Crowdloan #{crowdloan_id}.", <<7>>))
    /\ result = Return(TRUE, Text("Refund completed successfully."))

\* C11: a failed wallet unlock ends the invocation with (false, <the unlock
\* subsystem's message>) and no refund call is composed, signed or submitted
\* after it.
C11_UnlockFailureStops ==
    (unlock_status.called /\ ~unlock_status.success)
    => /\ pc = "done"
       /\ unlock_status.message \in UnlockMessages
       /\ result = Return(FALSE, Text(unlock_status.message))
       /\ calls[Len(calls)] = "unlock_key"
       /\ NoneCalled({"compose_call", "create_signed_extrinsic",
                      "submit_extrinsic"})
       /\ ledger_outcome = NoOutcome

C11_Witness ==
    /\ pc = "done"
    /\ unlock_status.called /\ ~unlock_status.success
    /\ ~prompt
    /\ result = Return(FALSE, Text("Keyfile not found"))

\* C12: every failure, a ledger failure during the fetches, the refund-limit
\* read, compose/sign/submit or the extraction of a rejected extrinsic's error
\* included, ends the invocation with a returned (false, message) pair: no
\* invocation ends with a raised exception.
C12_NothingRaised ==
    pc = "done" => result.kind = "return"

\* C13: no step is retried: the snapshot fetch, the block-height fetch, the
\* wallet unlock and the submission each happen at most once in an
\* invocation, whatever the ledger or the wallet reports.
C13_AtMostOnce ==
    /\ \A x \in {"get_single_crowdloan", "get_block_number", "unlock_key",
                  "submit_extrinsic"} : AtMostOnce(calls, x)
    /\ AtMostOnce(completed, "get_single_crowdloan")
    /\ AtMostOnce(completed, "get_block_number")

C13_Witness ==
    /\ pc = "done"
    /\ Count(calls, "get_single_crowdloan") = 1
    /\ Count(calls, "get_block_number") = 1
    /\ Count(calls, "unlock_key") = 1
    /\ Count(calls, "submit_extrinsic") = 1
    /\ ledger_outcome = NoOutcome
    /\ result.kind = "raise"

\* the order of the positions in the function text
PcOrder ==
    <<"start", "gather", "evaluate", "show_crowdloan_details", "get_constant",
      "report", "confirm", "unlock_key", "compose_call",
      "create_signed_extrinsic", "submit_extrinsic", "submitted",
      "process_events", "is_success", "failed", "succeeded",
      "print_extrinsic_id", "return", "done">>

Pos(p) == CHOOSE i \in 1..Len(PcOrder) : PcOrder[i] = p

\* C14: provided every collaborator call eventually returns, every invocation
\* reaches a terminal state, reaches it once (the outcome is set once and
\* never changes) and visits no position twice (the position only moves
\* forward).
C14_TerminatesOnce ==
    /\ [][pc' # pc => Pos(pc') > Pos(pc)]_vars
    /\ [][result # NoResult => (result' = result /\ pc' = pc)]_vars
    /\ [](pc = "done" <=> result # NoResult)
    /\ <>[](pc = "done")

C14_Witness ==
    /\ pc = "done"
    /\ prompt /\ answer = "yes"
    /\ wait_for_inclusion /\ ~wait_for_finalization
    /\ Len(calls) = 12
    /\ result = Return(TRUE, Text("Refund completed successfully."))

\* the gate has started: a position past the join, or an outcome of a later step
EvaluationStarted ==
    /\ pc \notin {"start", "gather"}
    /\ pc = "done" => (console # <<>> \/ Len(calls) > 2)

\* what the gate returns for a verdict
GateResult(verdict, id) ==
    CASE verdict = "NotFound" -> Return(FALSE, NotFoundMsg(id))
      [] verdict = "Finalized" -> Return(FALSE, FinalizedMsg(id))
      [] verdict = "NotEnded" -> Return(FALSE, NotEndedMsg(id))
      [] OTHER -> NoResult

\* C15: the eligibility evaluation starts only after both the snapshot fetch
\* and the block-height fetch have completed, and the outcome is decided by
\* the two fetched values alone, whichever fetch completed first.
C15_JoinBeforeEvaluate ==
    EvaluationStarted
    => /\ crowdloan_task.st = "ok" /\ block_task.st = "ok"
       /\ Len(completed) = 2
       /\ crowdloan = crowdloan_task.val[1]
       /\ current_block = block_task.val[1]
       /\ LET verdict == evaluate(crowdloan_task.val[1], block_task.val[1]) IN
            /\ (pc # "evaluate" /\ verdict # "Eligible")
                    => /\ pc = "done"
                       /\ result = GateResult(verdict, crowdloan_id)
            /\ (pc # "evaluate" /\ verdict = "Eligible")
                    => Called("show_crowdloan_details") \/ pc = "show_crowdloan_details"

C15_Witness ==
    /\ pc = "done"
    /\ completed = <<"get_block_number", "get_single_crowdloan">>
    /\ crowdloan # None /\ ~crowdloan[1].finalized
    /\ current_block < crowdloan[1].end
    /\ ledger_block >= crowdloan[1].end
    /\ result = Return(FALSE, NotEndedMsg(crowdloan_id))

\* the call made right before the first call of x
CallBefore(x) ==
    LET i == CHOOSE j \in 1..Len(calls) : calls[j] = x
    IN  IF i > 1 THEN calls[i - 1] ELSE ""

\* C16: with prompt = false the question is never asked, the invocation never
\* ends as cancelled, and an eligible crowdloan goes from the report straight
\* to the unlock.
C16_NoPromptNoCancel ==
    ~prompt
    => /\ answer = "not asked"
       /\ ~Called("Confirm.ask")
       /\ result # Return(FALSE, Text("Refund cancelled by user."))
       /\ ~Printed(Line("print", "Refund cancelled.", <<>>))
       /\ Called("unlock_key") => CallBefore("unlock_key") = "get_constant"
       /\ (Reported /\ pc # "confirm") => Called("unlock_key") \/ pc = "unlock_key"

C16_Witness ==
    /\ ~prompt
    /\ pc = "done"
    /\ Called("unlock_key")
    /\ unlock_status.success
    /\ result.kind = "return" /\ result.ok

EstimateRowShown ==
    \E i \in 1..Len(console) :
        console[i].kind = "row" /\ console[i].fmt = "Estimated Calls Needed"

EstimateNoteShown ==
    \E i \in 1..Len(console) :
        console[i].kind = "print" /\ console[i].fmt = "Note"

\* C17: for contributors_count >= 0 and refund_limit > 0 the estimate is an
\* upper bound that overshoots by at most one (estimate * refund_limit >=
\* contributors_count and (estimate - 1) * refund_limit <= contributors_count),
\* and the "Estimated Calls Needed" row and the note are shown exactly when
\* the estimate is greater than 1.
C17_EstimateBounds ==
    /\ ~Reported => (~EstimateRowShown /\ ~EstimateNoteShown)
    /\ Reported =>
        LET n == crowdloan[1].contributors_count
            k == estimated_calls
        IN  /\ refund_limit > 0
                => /\ k * refund_limit >= n
                   /\ (k - 1) * refund_limit <= n
            /\ EstimateRowShown <=> k > 1
            /\ EstimateNoteShown <=> k > 1
            /\ k > 1 => /\ Printed(Line("row", "Estimated Calls Needed", <<k>>))
                        /\ Printed(Line("print", "Note",
                                        <<refund_limit, k, refund_limit>>))

C17_Witness ==
    /\ Reported
    /\ refund_limit > 0
    /\ crowdloan[1].contributors_count = refund_limit
    /\ estimated_calls = 2
    /\ EstimateRowShown /\ EstimateNoteShown

\* C18: an invocation returns success = true iff the refund extrinsic was
\* submitted and either no acknowledgment was requested or the ledger reported
\* is_success = true; on the other paths (not found, finalized, window open,
\* cancelled, unlock failed, chain rejected) it returns success = false.
\* Invocations ended by a failure of the ledger connection are left out.
C18_SuccessIff ==
    (pc = "done" /\ result # Raise("LedgerError"))
    => /\ result.kind = "return"
       /\ result.ok <=>
            /\ Submitted
            /\ \/ ~wait_for_inclusion /\ ~wait_for_finalization
               \/ ledger_outcome.is_success

\* C19: with a block height that never decreases and an end block that does
\* not change, whenever the refund call is submitted the ledger's actual
\* block height is >= the crowdloan's end, for every interleaving of the two
\* fetches with block production.
C19_SubmittedAfterEnd ==
    (pc = "submit_extrinsic" \/ Called("submit_extrinsic"))
    => /\ ledger_crowdloan # None
       /\ ledger_block >= ledger_crowdloan[1].end
       /\ ledger_block >= current_block

C19_Witness ==
    /\ Called("submit_extrinsic")
    /\ Submitted
    /\ completed = <<"get_block_number", "get_single_crowdloan">>
    /\ current_block = ledger_crowdloan[1].end
    /\ current_block < ledger_block
====
